---- MODULE Spec2Model ----
(***************************************************************************)
(* Model of src/2-Model/2.2-training.py: the offline dataset load with its *)
(* terminal-flag fallback, the OfflineEnv replay environment (reset/step)  *)
(* and the training driver of the __main__ block.                          *)
(*                                                                         *)
(* Rows of the table are numbered from 0 as in the source; the columns are *)
(* TLA+ sequences, so row k of a column c is c[k + 1].                     *)
(***************************************************************************)
EXTENDS Integers, Sequences, FiniteSets, TLC

\* ---------------------------------------------------------------- bounds
MaxRows == 3        \* largest table replayed by the environment
MaxSteps == 4       \* step calls per episode (more than MaxRows: wraps)
MaxReward == 1      \* mean rewards of an iteration range over -1 .. MaxReward
MaxObs == 1         \* observations range over 0 .. MaxObs
MaxAction == 1      \* actions proposed by the learner: -1 .. MaxAction
MaxSmall == 3       \* short tables of the loader: 0 .. MaxSmall rows
MaxExtra == 2       \* long tables of the loader: up to FallbackRows + MaxExtra

\* ------------------------------------------------------ program constants
FallbackRows == 1000    \* terminals[-1000:, 0] = 1
NumIterations == 100    \* for i in range(100)
MinIterations == 20     \* if i > 20 and avg_reward <= 0
NegInf == 0 - 1000000   \* -float('inf'): below every reward

RewardVals == (0 - 1)..MaxReward
ObsVals == 0..MaxObs
ActionVals == (0 - 1)..MaxAction
FlagVals == {0, 1}
LoggedRewards == {0 - 1, 1}     \* rewards column of the replayed tables

VARIABLES
    pc,                         \* position of the script
    states, rewards, terminals, \* module-level dataset columns
    raw_terminals,              \* the terminal column as parsed (line 24)
    index,                      \* OfflineEnv._index
    current_episode_reward,     \* OfflineEnv._current_episode_reward
    current_episode_length,     \* OfflineEnv._current_episode_length
    ret,                        \* what the last reset/step call returned
    start,                      \* the cursor set by construction or the last reset
    env_exc,                    \* exception raised by the last environment call
    i,                          \* loop variable of the training loop
    avg_reward,                 \* result.get('episode_reward_mean', 0)
    best_reward,                \* best mean reward seen in this run
    trained,                    \* algo.train() calls that have returned
    ckpt,                       \* what checkpoint_dir holds
    seen,                       \* mean rewards of the earlier iterations
    saved_now,                  \* the current iteration called algo.save
    exit_reason,                \* how the training loop was left
    exc,                        \* exception propagating out of the try statement
    export,                     \* outcome of the torch_model.pt export
    status                      \* how the process ended

envvars == <<index, current_episode_reward, current_episode_length, ret, start, env_exc>>
datavars == <<states, rewards, terminals, raw_terminals>>
drivervars == <<i, avg_reward, best_reward, trained, ckpt, seen, saved_now,
                exit_reason, exc, export, status>>

NoCheckpoint == [by |-> "none", version |-> 0, reward |-> NegInf]

\* the driver before line 158
DriverIdle ==
    /\ i = 0
    /\ avg_reward = 0
    /\ best_reward = NegInf
    /\ trained = 0
    /\ ckpt = NoCheckpoint
    /\ seen = {}
    /\ saved_now = FALSE
    /\ exit_reason = "none"
    /\ exc = "none"
    /\ export = "none"
    /\ status = "running"

\* ------------------------------------------------------------ dataset load

\* numpy's sum over the column (pairwise, as numpy adds)
RECURSIVE SumRange(_, _, _)
SumRange(col, lo, hi) ==
    IF lo > hi THEN 0
    ELSE IF lo = hi THEN col[lo]
    ELSE LET mid == (lo + hi) \div 2
         IN  SumRange(col, lo, mid) + SumRange(col, mid + 1, hi)

ColumnSum(col) == SumRange(col, 1, Len(col))

\* start of the slice [-1000:] of a column of n rows (0-based, clipped at 0)
SliceStart(n) == IF n - FallbackRows > 0 THEN n - FallbackRows ELSE 0

\* mutant: the fallback marks the whole column
TerminalFallback_all(col) ==
    IF ColumnSum(col) = 0
    THEN [k \in 1..Len(col) |-> 1]
    ELSE col

\* lines 26-28: if terminals.sum() == 0: terminals[-1000:, 0] = 1
TerminalFallback(col) ==
    IF ColumnSum(col) = 0
    THEN [k \in 1..Len(col) |-> IF k - 1 >= SliceStart(Len(col)) THEN 1 ELSE col[k]]
    ELSE col

\* row counts of the tables the loader is run on
LoadLens == (0..MaxSmall) \cup ((FallbackRows - 1)..(FallbackRows + MaxExtra))

\* rows of a table of n rows where a source may carry a terminal flag
MarkRows(n) == {0, 1, n - FallbackRows - 1, n - FallbackRows, n - 1} \cap (0..(n - 1))

NoCall == [kind |-> "none", obs |-> 0, reward |-> 0, terminated |-> FALSE,
           truncated |-> FALSE, info |-> <<>>]

EnvIdle ==
    /\ index = 0
    /\ current_episode_reward = 0
    /\ current_episode_length = 0
    /\ ret = NoCall
    /\ start = 0
    /\ env_exc = "none"

\* lines 20-24: the columns as parsed from model-base.csv
LoadInit ==
    /\ pc = "parsed"
    /\ \E n \in LoadLens : \E marked \in SUBSET MarkRows(n) :
          /\ states = [k \in 1..n |-> 0]
          /\ rewards = [k \in 1..n |-> 0]
          /\ raw_terminals = [k \in 1..n |-> IF (k - 1) \in marked THEN 1 ELSE 0]
    /\ terminals = raw_terminals
    /\ EnvIdle
    /\ DriverIdle

\* lines 26-30
Load ==
    /\ pc = "parsed"
    /\ terminals' = TerminalFallback(terminals)
    /\ pc' = "loaded"
    /\ UNCHANGED <<states, rewards, raw_terminals>>
    /\ UNCHANGED <<envvars, drivervars>>

\* ------------------------------------------------------------ OfflineEnv

Row(col, k) == col[k + 1]
TableSize == Len(states)        \* len(self._dataset['obs'])

Env == [index |-> index,
        current_episode_reward |-> current_episode_reward,
        current_episode_length |-> current_episode_length]

\* mutant: a terminal row sends the cursor back to row 0
step_restart(env, action) ==
    LET reward == Row(rewards, env.index)
        terminated == Row(terminals, env.index) # 0
        total == env.current_episode_reward + reward
    IN  [env |-> [index |-> IF terminated THEN 0 ELSE (env.index + 1) % TableSize,
                  current_episode_reward |-> total,
                  current_episode_length |-> env.current_episode_length + 1],
         ret |-> [kind |-> "step", obs |-> Row(states, env.index), reward |-> reward,
                  terminated |-> terminated, truncated |-> FALSE, info |-> <<total>>]]

\* mutant: the cursor advances without wrapping
step_nowrap(env, action) ==
    LET reward == Row(rewards, env.index % TableSize)
        terminated == Row(terminals, env.index % TableSize) # 0
        total == env.current_episode_reward + reward
    IN  [env |-> [index |-> env.index + 1,
                  current_episode_reward |-> total,
                  current_episode_length |-> env.current_episode_length + 1],
         ret |-> [kind |-> "step", obs |-> Row(states, env.index % TableSize),
                  reward |-> reward,
                  terminated |-> terminated, truncated |-> FALSE, info |-> <<total>>]]

\* mutant: the reward is the logged reward scaled by the proposed action
step_action(env, action) ==
    LET reward == Row(rewards, env.index) * action
        terminated == Row(terminals, env.index) # 0
        total == env.current_episode_reward + reward
    IN  [env |-> [index |-> (env.index + 1) % TableSize,
                  current_episode_reward |-> total,
                  current_episode_length |-> env.current_episode_length + 1],
         ret |-> [kind |-> "step", obs |-> Row(states, env.index), reward |-> reward,
                  terminated |-> terminated, truncated |-> FALSE, info |-> <<total>>]]

\* lines 84-97: the new environment state and the returned tuple
step(env, action) ==
    LET obs == Row(states, env.index)
        reward == Row(rewards, env.index)
        terminated == Row(terminals, env.index) # 0
        total == env.current_episode_reward + reward
    IN  [env |-> [index |-> (env.index + 1) % TableSize,
                  current_episode_reward |-> total,
                  current_episode_length |-> env.current_episode_length + 1],
         ret |-> [kind |-> "step", obs |-> obs, reward |-> reward,
                  terminated |-> terminated, truncated |-> FALSE, info |-> <<total>>]]

\* the tables an environment is built over: parsed columns after the fallback
EnvInit ==
    /\ pc = "env"
    /\ \E n \in 0..MaxRows :
          /\ states \in [1..n -> ObsVals]
          /\ rewards \in [1..n -> LoggedRewards]
          /\ raw_terminals \in [1..n -> FlagVals]
    /\ terminals = TerminalFallback(raw_terminals)
    /\ EnvIdle      \* lines 59-61
    /\ DriverIdle

\* lines 63-68; np.random.randint(0, 0) raises ValueError on an empty table
Reset ==
    /\ pc = "env"
    /\ env_exc = "none"
    /\ IF TableSize = 0
       THEN /\ env_exc' = "ValueError"
            /\ UNCHANGED <<index, current_episode_reward, current_episode_length,
                           ret, start>>
       ELSE \E r \in 0..(TableSize - 1) :
            /\ index' = r
            /\ start' = r
            /\ current_episode_reward' = 0
            /\ current_episode_length' = 0
            /\ ret' = [kind |-> "reset", obs |-> Row(states, r), reward |-> 0,
                       terminated |-> FALSE, truncated |-> FALSE, info |-> <<>>]
            /\ env_exc' = "none"
    /\ UNCHANGED <<pc, datavars, drivervars>>

\* lines 70-97; indexing row 0 of an empty table raises IndexError (line 84)
Step ==
    /\ pc = "env"
    /\ env_exc = "none"
    /\ current_episode_length < MaxSteps
    /\ \E action \in ActionVals :
          IF TableSize = 0
          THEN /\ env_exc' = "IndexError"
               /\ UNCHANGED <<index, current_episode_reward, current_episode_length,
                              ret, start>>
          ELSE LET r == step(Env, action)
               IN  /\ index' = r.env.index
                   /\ current_episode_reward' = r.env.current_episode_reward
                   /\ current_episode_length' = r.env.current_episode_length
                   /\ ret' = r.ret
                   /\ UNCHANGED <<start, env_exc>>
    /\ UNCHANGED <<pc, datavars, drivervars>>

\* -------------------------------------------------------- training driver

TrainingPcs == {"train", "check_best", "check_stop"}

\* mutant: the early stop is armed one iteration too soon
ShouldStop_early(idx, reward) == idx >= MinIterations /\ reward <= 0

\* line 180: if i > 20 and avg_reward <= 0
ShouldStop(idx, reward) == idx > MinIterations /\ reward <= 0

\* line 174: if avg_reward > best_reward
IsNewBest(reward, best) == reward > best

\* the dataset the driver trains on is a loaded table of at least one row
DriverInit ==
    /\ pc = "train"
    /\ states = <<0>>
    /\ rewards = <<0>>
    /\ raw_terminals = <<0>>
    /\ terminals = TerminalFallback(raw_terminals)
    /\ EnvIdle
    /\ DriverIdle

\* line 163-166: algo.train() returns the metrics of iteration i
Train ==
    /\ pc = "train"
    /\ \E r \in RewardVals : avg_reward' = r
    /\ trained' = trained + 1
    /\ saved_now' = FALSE
    /\ pc' = "check_best"
    /\ UNCHANGED <<i, best_reward, ckpt, seen, exit_reason, exc, export, status>>
    /\ UNCHANGED <<datavars, envvars>>

\* line 163: algo.train() raises; no except clause matches, finally runs
TrainError ==
    /\ pc = "train"
    /\ exc' = "Exception"
    /\ exit_reason' = "error"
    /\ pc' = "finally"
    /\ UNCHANGED <<i, avg_reward, best_reward, trained, ckpt, seen, saved_now,
                   export, status>>
    /\ UNCHANGED <<datavars, envvars>>

\* lines 174-177
CheckBest ==
    /\ pc = "check_best"
    /\ IF IsNewBest(avg_reward, best_reward)
       THEN /\ best_reward' = avg_reward
            /\ ckpt' = [by |-> "best", version |-> trained, reward |-> avg_reward]
            /\ saved_now' = TRUE
       ELSE UNCHANGED <<best_reward, ckpt, saved_now>>
    /\ pc' = "check_stop"
    /\ UNCHANGED <<i, avg_reward, trained, seen, exit_reason, exc, export, status>>
    /\ UNCHANGED <<datavars, envvars>>

\* lines 180-182 and the loop header of line 162
CheckStop ==
    /\ pc = "check_stop"
    /\ seen' = seen \cup {avg_reward}
    /\ IF ShouldStop(i, avg_reward)
       THEN /\ exit_reason' = "early_stop"
            /\ pc' = "finally"
            /\ i' = i
       ELSE IF i + 1 < NumIterations
       THEN /\ i' = i + 1
            /\ pc' = "train"
            /\ UNCHANGED exit_reason
       ELSE /\ exit_reason' = "exhausted"
            /\ pc' = "finally"
            /\ i' = i
    /\ UNCHANGED <<avg_reward, best_reward, trained, ckpt, saved_now, exc,
                   export, status>>
    /\ UNCHANGED <<datavars, envvars>>

\* mutant: the handler lets the interruption through
Interrupt_uncaught ==
    /\ pc \in TrainingPcs
    /\ exit_reason' = "interrupt"
    /\ exc' = "KeyboardInterrupt"
    /\ pc' = "finally"
    /\ UNCHANGED <<i, avg_reward, best_reward, trained, ckpt, seen, saved_now,
                   export, status>>
    /\ UNCHANGED <<datavars, envvars>>

\* lines 184-185: KeyboardInterrupt raised inside the try block
Interrupt ==
    /\ pc \in TrainingPcs
    /\ exit_reason' = "interrupt"
    /\ exc' = "none"
    /\ pc' = "finally"
    /\ UNCHANGED <<i, avg_reward, best_reward, trained, ckpt, seen, saved_now,
                   export, status>>
    /\ UNCHANGED <<datavars, envvars>>

\* mutant: the final save is left out
FinalSave_skipped ==
    /\ pc = "finally"
    /\ pc' = "export"
    /\ UNCHANGED <<i, avg_reward, best_reward, trained, ckpt, seen, saved_now,
                   exit_reason, exc, export, status>>
    /\ UNCHANGED <<datavars, envvars>>

\* lines 187-189: algo.save(checkpoint_dir), the directory of the best save
FinalSave ==
    /\ pc = "finally"
    /\ ckpt' = [by |-> "final", version |-> trained,
                reward |-> IF trained = 0 THEN NegInf ELSE avg_reward]
    /\ pc' = "export"
    /\ UNCHANGED <<i, avg_reward, best_reward, trained, seen, saved_now,
                   exit_reason, exc, export, status>>
    /\ UNCHANGED <<datavars, envvars>>

\* mutant: a failing export is not caught
Export_uncaught ==
    /\ pc = "export"
    /\ \E outcome \in {"saved", "skipped", "failed"} :
          /\ export' = outcome
          /\ IF outcome = "failed"
             THEN exc' = "Exception" /\ pc' = "exit" /\ status' = "error"
             ELSE exc' = exc /\ pc' = "epilogue" /\ status' = status
    /\ UNCHANGED <<i, avg_reward, best_reward, trained, ckpt, seen, saved_now,
                   exit_reason>>
    /\ UNCHANGED <<datavars, envvars>>

\* lines 192-204: the weights are written, or there is no policy to write,
\* or an Exception is raised and caught by line 203
Export ==
    /\ pc = "export"
    /\ \E outcome \in {"saved", "skipped", "failed"} : export' = outcome
    /\ pc' = "epilogue"
    /\ UNCHANGED <<i, avg_reward, best_reward, trained, ckpt, seen, saved_now,
                   exit_reason, exc, status>>
    /\ UNCHANGED <<datavars, envvars>>

\* line 206, then the end of the finally clause: a pending exception is re-raised
Finish ==
    /\ pc = "epilogue"
    /\ pc' = "exit"
    /\ status' = IF exc = "none" THEN "ok" ELSE "error"
    /\ UNCHANGED <<i, avg_reward, best_reward, trained, ckpt, seen, saved_now,
                   exit_reason, exc, export>>
    /\ UNCHANGED <<datavars, envvars>>

vars == <<pc, states, rewards, terminals, raw_terminals, index,
          current_episode_reward, current_episode_length, ret, start, env_exc,
          i, avg_reward, best_reward, trained, ckpt, seen, saved_now,
          exit_reason, exc, export, status>>

LoadNext == Load
LoadSpec == LoadInit /\ [][LoadNext]_vars

EnvNext == Reset \/ Step
EnvSpec == EnvInit /\ [][EnvNext]_vars

DriverNext ==
    \/ Train
    \/ TrainError
    \/ CheckBest
    \/ CheckStop
    \/ Interrupt
    \/ FinalSave
    \/ Export
    \/ Finish
DriverSpec == DriverInit /\ [][DriverNext]_vars

\* the script is sequential: a statement that can run does run
DriverFairSpec == DriverSpec /\ WF_vars(DriverNext)

\* ------------------------------------------------------------------ claims

AllZero(col) == \A k \in 1..Len(col) : col[k] = 0
InLastRows(col, k) == k > Len(col) - FallbackRows

\* C3: after N step calls from the start index i chosen by reset (or set by
\* construction) the cursor is (i + N) mod table_size, whatever the terminal
\* flags of the rows replayed
C3_CursorAfterSteps ==
    (pc = "env" /\ TableSize > 0) =>
        index = (start + current_episode_length) % TableSize

\* a terminal row was replayed from a start other than row 0, two or more
\* steps into the episode, and the cursor has wrapped past the end of the table
C3_Witness ==
    /\ pc = "env"
    /\ TableSize >= 2
    /\ start # 0
    /\ current_episode_length >= 2
    /\ start + current_episode_length > TableSize
    /\ ret.kind = "step"
    /\ ret.terminated
    /\ index # 0

\* C4: on a table of at least one row the cursor is always a row of the
\* table, after construction and after any sequence of reset and step calls
C4_CursorInRange ==
    (pc = "env" /\ TableSize >= 1) => index \in 0..(TableSize - 1)

\* a step from the last row of a table of two or more rows wrapped to row 0
C4_Witness ==
    /\ pc = "env"
    /\ TableSize >= 2
    /\ ret.kind = "step"
    /\ current_episode_length >= 1
    /\ index = 0

\* C5: the step that is taken, whatever action it was called with, returns
\* the tuple and leaves the environment in the state that a step with any
\* other action would have produced from the same state
C5_StepIgnoresAction ==
    [][(Step /\ TableSize > 0) =>
          \A a \in ActionVals :
              step(Env, a) = [env |-> [index |-> index',
                                       current_episode_reward |-> current_episode_reward',
                                       current_episode_length |-> current_episode_length'],
                              ret |-> ret']]_vars

\* a step replayed a row with a non-zero reward
C5_Witness ==
    /\ pc = "env"
    /\ ret.kind = "step"
    /\ ret.reward # 0
    /\ current_episode_reward # 0

\* C6: a column of all-zero flags has, after loading, flag 1 on exactly its
\* last 1000 rows (all rows when it has fewer) and its earlier rows as
\* parsed; a column with a flag set is left as parsed
C6_TerminalFallback ==
    pc = "loaded" =>
        /\ Len(terminals) = Len(raw_terminals)
        /\ AllZero(raw_terminals) =>
              \A k \in 1..Len(terminals) :
                  /\ InLastRows(terminals, k) => terminals[k] = 1
                  /\ ~InLastRows(terminals, k) => terminals[k] = raw_terminals[k]
        /\ ~AllZero(raw_terminals) => terminals = raw_terminals

\* an all-zero column of more than 1000 rows was loaded: its first row is
\* still 0 and its last row is 1
C6_Witness ==
    /\ pc = "loaded"
    /\ AllZero(raw_terminals)
    /\ Len(terminals) > FallbackRows
    /\ terminals[1] = 0
    /\ terminals[Len(terminals)] = 1

\* a column with a flag set outside its last 1000 rows was loaded unchanged
C6_WitnessFlagged ==
    /\ pc = "loaded"
    /\ Len(terminals) > FallbackRows
    /\ raw_terminals[1] = 1
    /\ terminals[Len(terminals)] = 0

\* C10: a step from cursor j returns the reward and terminal flag of row j
\* with the observation of the row after it, (j + 1) mod table_size (the
\* row the cursor is on once the step has returned)
C10_StepReturnsNextObs ==
    (pc = "env" /\ ret.kind = "step") =>
        LET j == (index + TableSize - 1) % TableSize
        IN  /\ ret.reward = Row(rewards, j)
            /\ ret.terminated = (Row(terminals, j) # 0)
            /\ ret.obs = Row(states, index)

\* what the code returns: the observation of row j itself
StepReturnsCurrentObs ==
    (pc = "env" /\ ret.kind = "step") =>
        LET j == (index + TableSize - 1) % TableSize
        IN  /\ ret.reward = Row(rewards, j)
            /\ ret.terminated = (Row(terminals, j) # 0)
            /\ ret.obs = Row(states, j)


Highest(S) == CHOOSE m \in S : \A r \in S : m >= r

\* the mean rewards of all iterations that have returned so far
AllRewards == seen \cup (IF trained > 0 THEN {avg_reward} ELSE {})

\* line 174 has been passed for every iteration that has returned
Compared == pc \in {"train", "check_stop", "export", "epilogue", "exit"}

\* C1, inside the loop: iteration k overwrites the checkpoint if and only if
\* its mean reward strictly exceeds that of every earlier iteration
C1_SavedIffStrictlyBetter ==
    pc = "check_stop" => (saved_now <=> \A r \in seen : avg_reward > r)

\* C1: iteration k overwrites the checkpoint if and only if its mean reward
\* strictly exceeds that of every earlier iteration, and the checkpoint in
\* the checkpoint directory is always the one of the highest-reward iteration
C1_BestCheckpointKept ==
    /\ C1_SavedIffStrictlyBetter
    /\ (Compared /\ trained > 0 /\ ckpt.by # "none") =>
          ckpt.reward = Highest(AllRewards)

\* C2: the loop is left by the early stop at index i if and only if i > 20
\* and the iteration's mean reward is <= 0; no early stop at an index up to
\* 20; a run of positive rewards that is neither interrupted nor failed runs
\* all 100 iterations
C2_EarlyStop ==
    /\ [][(pc = "check_stop" /\ exit_reason' # "interrupt") =>
             ((exit_reason' = "early_stop") <=> (i > 20 /\ avg_reward <= 0))]_vars
    /\ [](exit_reason = "early_stop" => (i > 20 /\ avg_reward <= 0 /\ trained = i + 1))
    /\ [](exit_reason = "exhausted" => trained = 100)
    /\ []((exit_reason \in {"exhausted", "early_stop"} /\ \A r \in seen : r > 0)
             => (exit_reason = "exhausted" /\ trained = 100))

\* the loop stopped early at index 21 on a zero reward, after iterations
\* that never had a positive reward
C2_Witness ==
    /\ exit_reason = "early_stop"
    /\ i = 21
    /\ avg_reward = 0
    /\ best_reward <= 0
    /\ (0 - 1) \in seen

\* a run of positive rewards only used the whole budget
C2_WitnessFullBudget ==
    /\ exit_reason = "exhausted"
    /\ trained = 100
    /\ \A r \in seen : r > 0

\* C7: the training state is only ever left for finalizing, and the export
\* is attempted only after the final checkpoint of the learner state of the
\* last training iteration has been written
C7_FinalCheckpoint ==
    /\ [][(pc \in TrainingPcs /\ pc' \notin TrainingPcs) => pc' = "finally"]_vars
    /\ [][(pc = "finally" /\ pc' # "finally") =>
             (pc' = "export" /\ export' = "none" /\ trained' = trained
              /\ ckpt' = [by |-> "final", version |-> trained, reward |-> ckpt'.reward])]_vars
    /\ [](pc \in {"export", "epilogue", "exit"} =>
             (ckpt.by = "final" /\ ckpt.version = trained))
    /\ [](export # "none" => ckpt.by = "final")

\* C7, under fairness: once the training state is left the final checkpoint
\* is written and the process ends
C7_FinalCheckpointWritten ==
    /\ C7_FinalCheckpoint
    /\ (exit_reason # "none") ~> (ckpt.by = "final")
    /\ <>(pc = "exit")

\* an interrupted run wrote the final checkpoint over an earlier best one
\* and has reached the export
C7_Witness ==
    /\ pc = "export"
    /\ exit_reason = "interrupt"
    /\ ckpt.by = "final"
    /\ trained >= 2
    /\ ckpt.version = trained
    /\ best_reward > avg_reward

\* C8: an interruption during training leads into finalizing with nothing
\* propagating, and the process ends without error whatever the export does;
\* any other exception of the loop propagates and the process ends with it
C8_InterruptVersusError ==
    /\ [][(exit_reason = "none" /\ exit_reason' = "interrupt") =>
             (pc' = "finally" /\ exc' = "none")]_vars
    /\ [][(exit_reason = "none" /\ exit_reason' = "error") =>
             (pc' = "finally" /\ exc' = "Exception")]_vars
    /\ [](exit_reason = "interrupt" => exc = "none")
    /\ [](exit_reason = "error" => exc = "Exception")
    /\ []((pc = "exit" /\ exit_reason = "interrupt") => status = "ok")
    /\ []((pc = "exit" /\ exit_reason = "error") => status = "error")

\* an interrupted run has ended without error
C8_Witness ==
    /\ pc = "exit"
    /\ exit_reason = "interrupt"
    /\ status = "ok"
    /\ trained >= 1

\* a run whose algo.train() raised has ended with that error
C8_WitnessError ==
    /\ pc = "exit"
    /\ exit_reason = "error"
    /\ status = "error"

\* C9: a failed export leaves the final checkpoint in place, raises nothing
\* out of the try statement of line 192, is followed by line 206, and the
\* process of a run whose loop did not fail ends without error
C9_ExportFailureNonFatal ==
    /\ [][(export = "none" /\ export' = "failed") =>
             (pc' = "epilogue" /\ exc' = exc /\ ckpt' = ckpt)]_vars
    /\ [](export = "failed" =>
             (ckpt.by = "final" /\ ckpt.version = trained
              /\ exc = (IF exit_reason = "error" THEN "Exception" ELSE "none")))
    /\ []((pc = "exit" /\ export = "failed" /\ exit_reason # "error") => status = "ok")

\* a run that stopped early failed to export the weights and ended without error
C9_Witness ==
    /\ pc = "exit"
    /\ export = "failed"
    /\ exit_reason = "early_stop"
    /\ status = "ok"
    /\ ckpt.by = "final"


\* the parsed columns are slices of one frame: they have the same row count
NoRows == Len(states) = 0 \/ Len(rewards) = 0 \/ Len(raw_terminals) = 0

\* C11: a source with zero rows is rejected by the loader: the load never
\* completes on it, so neither the result of the terminal-flag fallback nor
\* an environment over an empty table is ever used
C11_EmptySourceRejected ==
    NoRows => pc \notin {"loaded", "env"}

\* what the code does: the load of a source with zero rows completes, the
\* fallback leaving the empty terminal column empty
EmptySourceLoaded ==
    (pc = "loaded" /\ NoRows) => (terminals = <<>> /\ env_exc = "none")


====
